---------------------------- MODULE Spec2Model ----------------------------
(***************************************************************************)
(* Model of the Conan recipe of sparrow (conanfile.py, class               *)
(* SparrowRecipe).  The recipe is a set of callbacks the package manager   *)
(* (the host) invokes on a recipe object: validate, source, layout,        *)
(* package, package_info and package_id.  Each callback is one action.     *)
(* The helpers the callbacks call (check_min_cppstd, get, copy,            *)
(* info.clear) are operators that compute what the helper computes for    *)
(* the arguments the recipe passes.                                        *)
(*                                                                         *)
(* Strings whose characters matter (file paths, glob patterns, language    *)
(* standards) are sequences of one-character strings.  A directory tree    *)
(* is a function from relative paths to file contents.                     *)
(***************************************************************************)
EXTENDS Integers, Sequences, FiniteSets, TLC

VARIABLES
    recipe,                  \* descriptive class attributes of SparrowRecipe
    settings,                \* self.settings, supplied by the host
    version,                 \* self.version
    archive,                 \* the archive behind conan_data["sources"][version]
    source_folder,           \* tree under self.source_folder
    package_folder,          \* tree under self.package_folder
    initial_package_folder,  \* the package folder as the host handed it over
    bindirs,                 \* self.cpp_info.bindirs
    libdirs,                 \* self.cpp_info.libdirs
    info,                    \* self.info, the package identity
    folders,                 \* self.folders, the layout convention
    fetched,                 \* URLs the last source() call asked get() for
    lastOp,                  \* the callback invoked last
    twice,                   \* the callback before the last one was the same one
    raised,                  \* the exception the last callback ended with
    host                     \* the host's position in its pipeline

vars == <<recipe, settings, version, archive, source_folder, package_folder,
          initial_package_folder, bindirs, libdirs, info, folders, fetched,
          lastOp, twice, raised, host>>

-----------------------------------------------------------------------------
(* Bounds of the model *)

MaxVersion == 2

Versions == 1..MaxVersion

-----------------------------------------------------------------------------
(* Characters and strings *)

UpperCase == <<"A","B","C","D","E","F","G","H","I","J","K","L","M",
               "N","O","P","Q","R","S","T","U","V","W","X","Y","Z">>

LowerCase == <<"a","b","c","d","e","f","g","h","i","j","k","l","m",
               "n","o","p","q","r","s","t","u","v","w","x","y","z">>

Digits == <<"0","1","2","3","4","5","6","7","8","9">>

\* str.lower() on one character
LowerChar(c) ==
    IF \E i \in 1..26 : UpperCase[i] = c
    THEN LowerCase[CHOOSE i \in 1..26 : UpperCase[i] = c]
    ELSE c

\* str.lower()
lower(s) == [i \in 1..Len(s) |-> LowerChar(s[i])]

\* the value of a digit character
DigitVal(c) == (CHOOSE i \in 1..10 : Digits[i] = c) - 1

\* str(n) for a number below 100
str(n) == IF n < 10 THEN <<Digits[n + 1]>>
          ELSE <<Digits[(n \div 10) + 1], Digits[(n % 10) + 1]>>

\* Python's < on strings of digits: lexicographic
RECURSIVE StrLess(_, _)
StrLess(a, b) ==
    IF b = <<>> THEN FALSE
    ELSE IF a = <<>> THEN TRUE
    ELSE IF Head(a) = Head(b) THEN StrLess(Tail(a), Tail(b))
    ELSE DigitVal(Head(a)) < DigitVal(Head(b))

IsPrefix(p, s) == Len(p) <= Len(s) /\ SubSeq(s, 1, Len(p)) = p

IsSuffix(p, s) == Len(p) <= Len(s) /\ SubSeq(s, Len(s) - Len(p) + 1, Len(s)) = p


-----------------------------------------------------------------------------
(* Directory trees *)

EmptyTree == <<>>

\* writing the files of `new` into `tree`: new files are created, existing
\* ones are overwritten, the others stay
Overlay(tree, new) ==
    [p \in DOMAIN tree \cup DOMAIN new |->
        IF p \in DOMAIN new THEN new[p] ELSE tree[p]]

\* os.path.join(a, b); the empty path is the folder itself
join(a, b) == IF a = <<>> THEN b ELSE a \o <<"/">> \o b

-----------------------------------------------------------------------------
(* Recipe attributes: conanfile.py, lines 8-22 *)

RecipeAttributes ==
    [name         |-> "sparrow",
     description  |-> "C++20 idiomatic APIs for the Apache Arrow Columnar Format",
     license      |-> "Apache-2.0",
     author       |-> "Quantstack",
     url          |-> "https://github.com/conan-io/conan-center-index",
     homepage     |-> "https://github.com/xtensor-stack/sparrow",
     topics       |-> <<"arrow", "header-only">>,
     package_type |-> "header-library",
     no_copy_source |-> TRUE]

\* settings = "os", "arch", "compiler", "build_type"; the language standard is
\* the compiler's sub-setting compiler.cppstd
DeclaredSettings == {"os", "arch", "compiler", "build_type", "compiler.cppstd"}

\* variant: the minimum set three standards too low
min_cppstd_17 == 20 - 3

\* @property _min_cppstd
min_cppstd == 20

-----------------------------------------------------------------------------
(* check_min_cppstd(conanfile, cppstd), as validate() calls it *)

None == <<>>

\* str(cppstd).replace("gnu", "")
extract_cpp_version(s) ==
    IF IsPrefix(<<"g","n","u">>, s) THEN SubSeq(s, 4, Len(s)) ELSE s

\* "19%s" for "98", "20%s" for every other standard
add_millennium(s) ==
    IF s = <<"9","8">> THEN <<"1","9">> \o s ELSE <<"2","0">> \o s

\* The exception check_min_cppstd ends with, "none" when it returns.
check_min_cppstd(current_cppstd, cppstd) ==
    IF current_cppstd = None
    THEN "ConanInvalidConfiguration"
    ELSE IF StrLess(add_millennium(extract_cpp_version(current_cppstd)),
                    add_millennium(extract_cpp_version(str(cppstd))))
         THEN "ConanInvalidConfiguration"
         ELSE "none"

-----------------------------------------------------------------------------
(* get(conanfile, url, destination, strip_root=True), as source() calls it *)

\* conan_data["sources"][version]
conan_data_sources(v) == [url |-> <<"sparrow", v>>]

\* strip_root: the member's path without its top-level directory
RECURSIVE strip_root(_)
strip_root(p) ==
    IF p = <<>> THEN <<>>
    ELSE IF Head(p) = "/" THEN Tail(p)
    ELSE strip_root(Tail(p))

\* The destination after the first k members of the archive were extracted
\* (an archive is the sequence of its members, extracted in that order).
get(arch, k, destination) ==
    Overlay(destination,
            [q \in {strip_root(arch[i].name) : i \in 1..k} |->
                arch[CHOOSE i \in 1..k : strip_root(arch[i].name) = q].data])

-----------------------------------------------------------------------------
(* copy(conanfile, pattern, src, dst), as package() calls it:              *)
(* keep_path=True, ignore_case=True, no excludes                           *)

\* fnmatch.fnmatch(name, pattern) for patterns of literals and "*"
RECURSIVE fnmatch(_, _)
fnmatch(name, pattern) ==
    IF pattern = <<>> THEN name = <<>>
    ELSE IF Head(pattern) = "*"
         THEN \/ fnmatch(name, Tail(pattern))
              \/ name /= <<>> /\ fnmatch(Tail(name), pattern)
         ELSE /\ name /= <<>>
              /\ Head(name) = Head(pattern)
              /\ fnmatch(Tail(name), Tail(pattern))

\* the files of src the pattern selects (matched on the whole relative path,
\* both sides lower-cased)
files_to_copy(src, pattern) ==
    {n \in DOMAIN src : fnmatch(lower(n), lower(pattern))}

\* variant: an existing destination file is appended to, not overwritten
copy_append(pattern, src, dst, tree) ==
    LET files == files_to_copy(src, pattern) IN
    Overlay(tree,
            [q \in {join(dst, n) : n \in files} |->
                LET data == src[CHOOSE n \in files : join(dst, n) = q] IN
                IF q \in DOMAIN tree THEN tree[q] + data ELSE data])

\* the tree that holds dst after the copy: each selected file lands at
\* dst/<its path relative to src>
copy(pattern, src, dst, tree) ==
    LET files == files_to_copy(src, pattern) IN
    Overlay(tree,
            [q \in {join(dst, n) : n \in files} |->
                src[CHOOSE n \in files : join(dst, n) = q]])

-----------------------------------------------------------------------------
(* self.info *)

\* the identity the host builds from the settings of the invocation
\* (the recipe declares no options)
InfoOf(s) == [settings |-> s, options |-> <<>>]

\* ConanInfo.clear()
clear(i) == [settings |-> <<>>, options |-> <<>>]

-----------------------------------------------------------------------------
(* The callbacks of SparrowRecipe.  Each one records that it was invoked   *)
(* and the exception it ended with ("none" when it returned).              *)

Invoked(op, exc) ==
    /\ lastOp' = op
    /\ twice' = (lastOp = op)
    /\ raised' = exc

\* variant: the check is skipped when the profile sets no standard
validate_skip_unset ==
    /\ Invoked("validate",
               IF settings["compiler.cppstd"] = None THEN "none"
               ELSE check_min_cppstd(settings["compiler.cppstd"], min_cppstd))
    /\ UNCHANGED <<recipe, settings, version, archive, source_folder,
                   package_folder, initial_package_folder, bindirs, libdirs,
                   info, folders, fetched>>

\* def validate(self): check_min_cppstd(self, self._min_cppstd)
validate ==
    /\ Invoked("validate",
               check_min_cppstd(settings["compiler.cppstd"], min_cppstd))
    /\ UNCHANGED <<recipe, settings, version, archive, source_folder,
                   package_folder, initial_package_folder, bindirs, libdirs,
                   info, folders, fetched>>

\* variant: a failed get is tried once more
source_retry ==
    /\ \/ /\ source_folder' = get(archive, Len(archive), source_folder)
          /\ fetched' = <<conan_data_sources(version).url>>
          /\ Invoked("source", "none")
       \/ /\ source_folder' = source_folder
          /\ fetched' = <<conan_data_sources(version).url,
                          conan_data_sources(version).url>>
          /\ Invoked("source", "ConanException")
       \/ \E k \in 1..(Len(archive) - 1) :
             /\ source_folder' = get(archive, k, source_folder)
             /\ fetched' = <<conan_data_sources(version).url,
                             conan_data_sources(version).url>>
             /\ Invoked("source", "ConanException")
    /\ UNCHANGED <<recipe, settings, version, archive, package_folder,
                   initial_package_folder, bindirs, libdirs, info, folders>>

\* def source(self): get(self, **self.conan_data["sources"][self.version],
\*                       destination=self.source_folder, strip_root=True)
\* One call of get, whose exception is not caught.  get either extracts every
\* member, or fails before it extracted anything (the download failed), or
\* fails after it extracted the first members.
source ==
    /\ fetched' = <<conan_data_sources(version).url>>
    /\ \/ /\ source_folder' = get(archive, Len(archive), source_folder)
          /\ Invoked("source", "none")
       \/ /\ source_folder' = source_folder
          /\ Invoked("source", "ConanException")
       \/ \E k \in 1..(Len(archive) - 1) :
             /\ source_folder' = get(archive, k, source_folder)
             /\ Invoked("source", "ConanException")
    /\ UNCHANGED <<recipe, settings, version, archive, package_folder,
                   initial_package_folder, bindirs, libdirs, info, folders>>

\* def layout(self): cmake_layout(self)
\* The module imports ConanFile, copy, get, check_min_cppstd and os; the name
\* cmake_layout is bound nowhere, so the call raises NameError before anything
\* is set.
layout ==
    /\ Invoked("layout", "NameError")
    /\ UNCHANGED <<recipe, settings, version, archive, source_folder,
                   package_folder, initial_package_folder, bindirs, libdirs,
                   info, folders, fetched>>

LICENSE == <<"L","I","C","E","N","S","E">>

HPP == <<"*",".","h","p","p">>

licenses == <<"l","i","c","e","n","s","e","s">>

\* variant: LICENSE is copied to the package folder itself
package_license_at_root ==
    /\ package_folder' =
          copy(HPP, source_folder, <<>>,
               copy(LICENSE, source_folder, <<>>, package_folder))
    /\ Invoked("package", "none")
    /\ UNCHANGED <<recipe, settings, version, archive, source_folder,
                   initial_package_folder, bindirs, libdirs, info, folders,
                   fetched>>

\* variant: the packaged files are moved out of the source folder
package_move ==
    /\ package_folder' =
          copy(HPP, source_folder, <<>>,
               copy(LICENSE, source_folder, join(<<>>, licenses), package_folder))
    /\ source_folder' =
          [n \in DOMAIN source_folder \ (files_to_copy(source_folder, HPP)
                \cup files_to_copy(source_folder, LICENSE)) |-> source_folder[n]]
    /\ Invoked("package", "none")
    /\ UNCHANGED <<recipe, settings, version, archive,
                   initial_package_folder, bindirs, libdirs, info, folders,
                   fetched>>

\* def package(self):
\*     copy(self, "LICENSE", dst=os.path.join(self.package_folder, "licenses"),
\*          src=self.source_folder)
\*     copy(self, "*.hpp", self.source_folder, self.package_folder)
\* Paths of package_folder are relative to it, so self.package_folder is <<>>.
package ==
    /\ package_folder' =
          copy(HPP, source_folder, <<>>,
               copy(LICENSE, source_folder, join(<<>>, licenses), package_folder))
    /\ Invoked("package", "none")
    /\ UNCHANGED <<recipe, settings, version, archive, source_folder,
                   initial_package_folder, bindirs, libdirs, info, folders,
                   fetched>>

\* variant: only the binary directories are emptied
package_info_bindirs_only ==
    /\ bindirs' = <<>>
    /\ Invoked("package_info", "none")
    /\ UNCHANGED <<recipe, settings, version, archive, source_folder,
                   package_folder, initial_package_folder, libdirs, info,
                   folders, fetched>>

\* def package_info(self): self.cpp_info.bindirs = []; self.cpp_info.libdirs = []
package_info ==
    /\ bindirs' = <<>>
    /\ libdirs' = <<>>
    /\ Invoked("package_info", "none")
    /\ UNCHANGED <<recipe, settings, version, archive, source_folder,
                   package_folder, initial_package_folder, info, folders,
                   fetched>>

\* variant: only the compiler is removed from the identity
package_id_del_compiler ==
    /\ info' = [info EXCEPT !.settings =
                  [n \in DOMAIN info.settings \ {"compiler", "compiler.cppstd"}
                      |-> info.settings[n]]]
    /\ Invoked("package_id", "none")
    /\ UNCHANGED <<recipe, settings, version, archive, source_folder,
                   package_folder, initial_package_folder, bindirs, libdirs,
                   folders, fetched>>

\* def package_id(self): self.info.clear()
package_id ==
    /\ info' = clear(info)
    /\ Invoked("package_id", "none")
    /\ UNCHANGED <<recipe, settings, version, archive, source_folder,
                   package_folder, initial_package_folder, bindirs, libdirs,
                   folders, fetched>>

-----------------------------------------------------------------------------
(* Inputs *)

OsValues == {"Linux", "Windows"}

ArchValues == {"x86_64", "armv8"}

CompilerValues == {"gcc", "clang"}

BuildTypes == {"Release", "Debug"}

\* values of compiler.cppstd; None when the profile sets none
CppStds == {None, <<"9","8">>, <<"1","1">>, <<"1","7">>,
            <<"g","n","u","1","7">>, <<"2","0">>, <<"g","n","u","2","0">>,
            <<"2","3">>}

SettingsOf(os, arch, compiler, build_type, cppstd) ==
    [n \in DeclaredSettings |->
        CASE n = "os" -> os
          [] n = "arch" -> arch
          [] n = "compiler" -> compiler
          [] n = "build_type" -> build_type
          [] n = "compiler.cppstd" -> cppstd]

AllSettings ==
    {SettingsOf(os, arch, compiler, build_type, cppstd) :
        os \in OsValues, arch \in ArchValues, compiler \in CompilerValues,
        build_type \in BuildTypes, cppstd \in CppStds}

\* members of a release archive, below its top-level directory
Root == <<"s","p","a","r","r","o","w">>

FooHpp == <<"i","n","c","/","f","o","o",".","h","p","p">>

BarHPP == <<"B","a","r",".","H","P","P">>

NestedLicense == <<"i","n","c","/","L","I","C","E","N","S","E">>

LowerLicense == <<"l","i","c","e","n","s","e">>

Readme == <<"R","E","A","D","M","E",".","m","d">>

ScenarioFiles == {LICENSE, FooHpp}

AllFiles == <<LICENSE, Readme, FooHpp, BarHPP, NestedLicense, LowerLicense>>

\* the archive of release v that holds the files `files`
ArchiveOf(files, v) ==
    LET names == SelectSeq(AllFiles, LAMBDA f : f \in files) IN
    [i \in 1..Len(names) |-> [name |-> join(Root, names[i]), data |-> v]]

\* a file an earlier build left in the package folder
StaleTree == [p \in {<<"l","i","b","/","o","l","d",".","a">>} |-> 0]

DirectHost == [mode |-> "direct", called |-> {}, aborted |-> FALSE]

PipelineHost == [mode |-> "pipeline", called |-> {}, aborted |-> FALSE]

\* The state the host constructs the recipe in.
InitWith(settingsSet, fileSets, packageFolders, cppInfos, h) ==
    /\ recipe = RecipeAttributes
    /\ settings \in settingsSet
    /\ version \in Versions
    /\ archive \in {ArchiveOf(files, version) : files \in fileSets}
    /\ source_folder = EmptyTree
    /\ package_folder \in packageFolders
    /\ initial_package_folder = package_folder
    /\ \E c \in cppInfos : bindirs = c[1] /\ libdirs = c[2]
    /\ info = InfoOf(settings)
    /\ folders = "unset"
    /\ fetched = <<>>
    /\ lastOp = "none"
    /\ twice = FALSE
    /\ raised = "none"
    /\ host = h

DefaultCppInfo == <<(<<"bin">>), (<<"lib">>)>>

CustomCppInfo == <<(<<"bin", "tools">>), (<<"lib", "lib64">>)>>

-----------------------------------------------------------------------------
(* The host invokes the callbacks of a constructed recipe, any callback    *)
(* at any time.                                                            *)

Invoke(callback) == host.mode = "direct" /\ callback /\ UNCHANGED host

Next ==
    \/ Invoke(validate)
    \/ Invoke(source)
    \/ Invoke(layout)
    \/ Invoke(package)
    \/ Invoke(package_info)
    \/ Invoke(package_id)

\* every combination of settings, the archive of the end-to-end scenario
Init ==
    InitWith(AllSettings, {ScenarioFiles}, {EmptyTree},
             {DefaultCppInfo, CustomCppInfo}, DirectHost)

Spec == Init /\ [][Next]_vars

\* every archive over AllFiles, an empty or a used package folder
FilesInit ==
    InitWith({SettingsOf("Linux", "x86_64", "gcc", "Release", <<"2","0">>)},
             SUBSET {AllFiles[i] : i \in 1..Len(AllFiles)},
             {EmptyTree, StaleTree}, {DefaultCppInfo},
             DirectHost)

FilesSpec == FilesInit /\ [][Next]_vars

-----------------------------------------------------------------------------
(* The host's pipeline: validate first, then source, then the remaining    *)
(* callbacks; each callback once; a callback that raises ends the run.     *)

Ready(name) ==
    CASE name = "validate" -> host.called = {}
      [] name = "source" -> "validate" \in host.called
      [] OTHER -> {"validate", "source"} \subseteq host.called

Step(name, callback) ==
    /\ host.mode = "pipeline"
    /\ ~host.aborted
    /\ name \notin host.called
    /\ Ready(name)
    /\ callback
    /\ host' = [host EXCEPT !.called = @ \cup {name},
                            !.aborted = (raised' /= "none")]

HostNext ==
    \/ Step("validate", validate)
    \/ Step("source", source)
    \/ Step("layout", layout)
    \/ Step("package", package)
    \/ Step("package_info", package_info)
    \/ Step("package_id", package_id)

HostInit ==
    InitWith(AllSettings, {ScenarioFiles}, {EmptyTree, StaleTree},
             {DefaultCppInfo}, PipelineHost)

HostSpec == HostInit /\ [][HostNext]_vars

-----------------------------------------------------------------------------
(* Properties *)

cppstd == settings["compiler.cppstd"]

\* the standard is written as a number (no "gnu" prefix, not unset)
IsNumber(s) == s /= None /\ \A i \in 1..Len(s) : \E d \in 1..10 : Digits[d] = s[i]

\* the number a string of digits denotes
RECURSIVE Number(_)
Number(s) == IF s = <<>> THEN 0
             ELSE 10 * Number(SubSeq(s, 1, Len(s) - 1)) + DigitVal(s[Len(s)])

\* the year of the standard s names: C++98 is of 1998, C++n of 20n
YearOf(s) ==
    LET n == Number(IF IsNumber(s) THEN s ELSE SubSeq(s, 4, Len(s))) IN
    IF n = 98 THEN 1998 ELSE 2000 + n

\* C1, as stated: after validate() on a standard s given as a number,
\* validate() has succeeded if s >= 20 and has failed with a configuration
\* error if s < 20.
C1_ValidateByNumber ==
    (lastOp = "validate" /\ IsNumber(cppstd)) =>
        IF Number(cppstd) >= 20
        THEN raised = "none"
        ELSE raised = "ConanInvalidConfiguration"

\* C1, amended: after validate() on a standard s given as a number,
\* validate() has succeeded if s >= 20 and s is not 98 (C++98, which is older
\* than C++20), and has failed with a configuration error otherwise.
C1_ValidateByStandard ==
    (lastOp = "validate" /\ IsNumber(cppstd)) =>
        IF Number(cppstd) >= 20 /\ Number(cppstd) /= 98
        THEN raised = "none"
        ELSE raised = "ConanInvalidConfiguration"

C1_Witness ==
    lastOp = "validate" /\ cppstd = <<"2","0">> /\ raised = "none"

\* C2: after package_id() the package identity holds no setting and no
\* option, whatever the os, arch, compiler and build_type of the invocation:
\* it is the same identity in every invocation.
C2_IdentityCleared ==
    lastOp = "package_id" => info = [settings |-> <<>>, options |-> <<>>]

C2_Witness ==
    /\ lastOp = "package_id"
    /\ settings["os"] = "Windows"
    /\ settings["arch"] = "armv8"
    /\ settings["compiler"] = "clang"
    /\ settings["build_type"] = "Debug"

\* C3: after package_info() the binary-directory list and the
\* library-directory list are both empty.
C3_NoBinLibDirs ==
    lastOp = "package_info" => bindirs = <<>> /\ libdirs = <<>>

C3_Witness ==
    lastOp = "package_info" /\ bindirs = <<>> /\ settings["build_type"] = "Debug"

\* the package folder holds exactly the files licenseFiles of `tree`, under
\* licenses/, and the files headerFiles of `tree`, at their own paths
Packaged(tree, licenseFiles, headerFiles) ==
    /\ DOMAIN package_folder =
          {join(licenses, n) : n \in licenseFiles} \cup headerFiles
    /\ \A n \in licenseFiles : package_folder[join(licenses, n)] = tree[n]
    /\ \A n \in headerFiles : package_folder[n] = tree[n]

\* C4, as stated: package() on an empty package folder leaves exactly the
\* source root's LICENSE at licenses/LICENSE and every file whose path ends
\* in .hpp at its path relative to the source root.
C4_PackagedExactCase ==
    (lastOp = "package" /\ initial_package_folder = EmptyTree) =>
        Packaged(source_folder,
                 {n \in DOMAIN source_folder : n = LICENSE},
                 {n \in DOMAIN source_folder : IsSuffix(<<".","h","p","p">>, n)})

\* C4, amended: package() on an empty package folder leaves exactly every
\* file of the source root whose name is LICENSE in any letter case, under
\* licenses/ with its own name, and every file whose path ends in .hpp in
\* any letter case, at its path relative to the source root.
C4_PackagedAnyCase ==
    (lastOp = "package" /\ initial_package_folder = EmptyTree) =>
        Packaged(source_folder,
                 {n \in DOMAIN source_folder :
                     lower(n) = <<"l","i","c","e","n","s","e">>},
                 {n \in DOMAIN source_folder :
                     IsSuffix(<<".","h","p","p">>, lower(n))})

C4_Witness ==
    /\ lastOp = "package"
    /\ initial_package_folder = EmptyTree
    /\ DOMAIN source_folder = {LICENSE, FooHpp}
    /\ DOMAIN package_folder = {join(licenses, LICENSE), FooHpp}

\* C5: a package() that directly follows a package() leaves the package
\* folder, paths and contents, as the first one left it.
C5_PackageIdempotent ==
    [][(lastOp = "package" /\ lastOp' = "package") =>
            package_folder' = package_folder]_vars

C5_Witness ==
    /\ lastOp = "package"
    /\ twice
    /\ initial_package_folder /= EmptyTree
    /\ DOMAIN package_folder /= DOMAIN initial_package_folder

\* C6: after layout() the layout convention is set and no exception was
\* raised.
C6_LayoutCompletes ==
    lastOp = "layout" => raised = "none" /\ folders /= "unset"

\* C7: in a run of the pipeline, once validate() has failed nothing was
\* fetched into the source folder and nothing was copied into the package
\* folder, and package() has run only if the configured standard is C++20 or
\* newer.
C7_NoFetchNoCopyAfterInvalid ==
    /\ raised = "ConanInvalidConfiguration" =>
          /\ host.called = {"validate"}
          /\ source_folder = EmptyTree
          /\ package_folder = initial_package_folder
    /\ "package" \in host.called =>
          cppstd /= None /\ YearOf(cppstd) >= 2020

C7_Witness ==
    /\ host.aborted
    /\ raised = "ConanInvalidConfiguration"
    /\ cppstd = <<"1","7">>

\* C8: after validate() with no language standard in the settings,
\* validate() has failed with a configuration error.
C8_UnsetStandardFails ==
    (lastOp = "validate" /\ cppstd = None) => raised = "ConanInvalidConfiguration"

C8_Witness ==
    lastOp = "validate" /\ cppstd = None /\ raised = "ConanInvalidConfiguration"

\* C9: a source() call asks get() once, for the URL of the recipe's version;
\* it ends with get's exception or with none, and it removes no file from the
\* source folder, also when it fails.
C9_OneFetchNoCleanup ==
    [][lastOp' = "source" =>
          /\ fetched' = <<conan_data_sources(version).url>>
          /\ raised' \in {"none", "ConanException"}
          /\ \A p \in DOMAIN source_folder : p \in DOMAIN source_folder']_vars

\* a failed source() that left one of the two files of the archive
C9_Witness ==
    /\ lastOp = "source"
    /\ raised = "ConanException"
    /\ DOMAIN source_folder = {LICENSE}
    /\ Len(archive) = 2

\* C10: validate() changes nothing; package() changes the package folder
\* only; package_info() changes the directory lists only; package_id()
\* changes the package identity only.  In particular none of them changes
\* the source folder or the recipe's attributes.
C10_Frame ==
    [][/\ lastOp' = "validate" =>
             UNCHANGED <<recipe, settings, version, archive, source_folder,
                         package_folder, bindirs, libdirs, info, folders,
                         fetched>>
       /\ lastOp' = "package" =>
             UNCHANGED <<recipe, settings, version, archive, source_folder,
                         bindirs, libdirs, info, folders, fetched>>
       /\ lastOp' = "package_info" =>
             UNCHANGED <<recipe, settings, version, archive, source_folder,
                         package_folder, info, folders, fetched>>
       /\ lastOp' = "package_id" =>
             UNCHANGED <<recipe, settings, version, archive, source_folder,
                         package_folder, bindirs, libdirs, folders,
                         fetched>>]_vars

C10_Witness ==
    /\ lastOp = "package"
    /\ recipe = RecipeAttributes
    /\ DOMAIN source_folder = {LICENSE, FooHpp}
    /\ package_folder /= EmptyTree

=============================================================================
